---------------------------- MODULE Spec2Model ----------------------------
(***************************************************************************)
(* EyesOpen: the image-forensics pipeline of src/main.py and the five      *)
(* analyzers of src/image_analysis.py.                                     *)
(*                                                                         *)
(* Three specifications are given:                                         *)
(*   Spec         one run of main(image_path), statement by statement;     *)
(*   SpecAnyOrder the same run with the five analyzer calls of             *)
(*                process_images taken in an arbitrary order;              *)
(*   SpecCall     a direct call of one analyzer on an arbitrary argument,  *)
(*                with the numeric responses of the libraries as inputs.   *)
(*                                                                         *)
(* What OpenCV, NumPy, scikit-image and PyWavelets compute is an input of  *)
(* the model (the record lib): whether a library call raises, the Gabor    *)
(* magnitude, the median of the blurred image, the samples of the JPEG     *)
(* round trips.  What the repository's code does with those values is      *)
(* computed as the code computes it.  File-system writes are taken to      *)
(* succeed.                                                                *)
(***************************************************************************)
EXTENDS Integers, Sequences, FiniteSets, TLC

VARIABLES
    pc,          \* position of main: "read", "analyze", "compose", "done"
    image_path,  \* argument of main: [png, content]
    image,       \* main's local `image` (the buffer the analyzers share)
    lib,         \* responses of the libraries during this run
    results,     \* analyzer -> Pending, None or the buffer it returned
    invoked,     \* sequence of the analyzers called so far, in call order
    images,      \* list returned by process_images (<<>> before)
    report,      \* annotations and content written to analysis_report.png
    files,       \* names of the files the run wrote in the working directory
    log,         \* sequence of <<level, origin>> log records
    escaped,     \* an exception left main
    fn,          \* SpecCall: the analyzer called directly
    arg,         \* SpecCall: its argument
    ret          \* SpecCall: Pending or the outcome of the call

vars == <<pc, image_path, image, lib, results, invoked, images, report,
          files, log, escaped, fn, arg, ret>>

pipeVars == <<pc, image_path, image, results, invoked, images, report,
              files, log, escaped>>

callVars == <<fn, arg, ret>>

-----------------------------------------------------------------------------
(* Bounds of the model *)

MaxDim == 2      \* image heights and widths range over 1..MaxDim
MaxPix == 3      \* a Gabor magnitude holds 1..MaxPix samples
MaxMag == 3      \* each magnitude sample ranges over 0..MaxMag (fixed point)
MaxErr == 13     \* a JPEG round trip moves a sample by at most MaxErr

(* Program constants *)

MaxSample == 255      \* largest 8-bit sample; the clamp of `upper`
Amplification == 20   \* ELA amplification factor
Wrap == MaxSample + 1 \* uint8 arithmetic is modulo 256

Qualities == <<75, 85, 95>>

-----------------------------------------------------------------------------
(* Values *)

None == [kind |-> "None"]
Pending == [kind |-> "pending"]
NotArray == [kind |-> "object"]      \* any Python object that is no ndarray

\* An ndarray: ch = 3 for BGR, ch = 1 for a 2-D grayscale array.  data names
\* the content as the sequence of transforms it was computed by, innermost
\* last, so that two buffers are equal exactly when they hold the same
\* samples.
Buffer(h, w, ch, data) ==
    [kind |-> "ndarray", h |-> h, w |-> w, ch |-> ch, data |-> data]

IsArray(x) == x.kind = "ndarray"

Analyzers == {"ela", "gabor", "edge", "frequency", "texture"}

Min2(a, b) == IF a < b THEN a ELSE b
Max2(a, b) == IF a > b THEN a ELSE b

RECURSIVE SeqMin(_)
SeqMin(s) == IF Len(s) = 1 THEN s[1] ELSE Min2(s[1], SeqMin(Tail(s)))

RECURSIVE SeqMax(_)
SeqMax(s) == IF Len(s) = 1 THEN s[1] ELSE Max2(s[1], SeqMax(Tail(s)))

-----------------------------------------------------------------------------
(* IEEE-754 double multiplication, as 0.7 * median_val and 1.3 * median_val *)
(* perform it.  A double is mant / 2^exp with a 53-bit mantissa, held here  *)
(* as limbs in base 2^18, least significant first.  np.median of a uint8    *)
(* image is k/2 for an integer k in 0..510, exact in a double.              *)

LimbBase == 2^18

Mant07 == <<157286, 104857, 91750>>     \* 0.7 = 6305039478318694 / 2^53
Exp07 == 53
Mant13 == <<52429, 209715, 85196>>      \* 1.3 = 5854679515581645 / 2^52
Exp13 == 52

\* mant * k as four limbs (k < 2^9, so every partial product fits).
MulLimbs(mant, k) ==
    LET p1 == mant[1] * k
        p2 == mant[2] * k + p1 \div LimbBase
        p3 == mant[3] * k + p2 \div LimbBase
    IN  <<p1 % LimbBase, p2 % LimbBase, p3 % LimbBase, p3 \div LimbBase>>

RECURSIVE Bits(_)
Bits(n) == IF n = 0 THEN 0 ELSE 1 + Bits(n \div 2)

BitLen(x) ==
    IF x[4] > 0 THEN 54 + Bits(x[4])
    ELSE IF x[3] > 0 THEN 36 + Bits(x[3])
    ELSE IF x[2] > 0 THEN 18 + Bits(x[2])
    ELSE Bits(x[1])

\* Round the exact product to 53 significant bits, ties to even.
Round53(x) ==
    LET s    == Max2(0, BitLen(x) - 53)
        unit == 2^s
        r    == x[1] % unit
        odd  == (x[1] \div unit) % 2 = 1
        up   == s > 0 /\ (2 * r > unit \/ (2 * r = unit /\ odd))
        q1   == x[1] - r + (IF up THEN unit ELSE 0)
        q2   == x[2] + q1 \div LimbBase
        q3   == x[3] + q2 \div LimbBase
    IN  <<q1 % LimbBase, q2 % LimbBase, q3 % LimbBase, x[4] + q3 \div LimbBase>>

\* int(x / 2^e) for a non-negative x and 36 <= e <= 54.
TruncShift(x, e) == x[4] * 2^(54 - e) + x[3] \div 2^(e - 36)

\* int(c * median) where c = mant / 2^exp and median = k / 2.
DoubleMulTrunc(mant, exp, k) == TruncShift(Round53(MulLimbs(mant, k)), exp + 1)


-----------------------------------------------------------------------------
(* Numeric kernels of the analyzers (src/image_analysis.py) *)

\* lower and upper of perform_advanced_edge_detection for the median k/2.
\* 0.7 * median_val is never negative, so max(0, .) returns it; int()
\* truncates, and truncation commutes with the clamp at the integer 255.
canny_thresholds_swapped(k) ==
    [lower |-> Min2(MaxSample, DoubleMulTrunc(Mant13, Exp13, k)),
     upper |-> Max2(0, DoubleMulTrunc(Mant07, Exp07, k))]

canny_thresholds(k) ==
    [lower |-> Max2(0, DoubleMulTrunc(Mant07, Exp07, k)),
     upper |-> Min2(MaxSample, DoubleMulTrunc(Mant13, Exp13, k))]

\* cv2.absdiff on uint8 samples.
absdiff(a, b) == IF a >= b THEN a - b ELSE b - a

\* cv2.absdiff(image, compressed_image) * 20: the product of a uint8 array
\* and a Python int stays uint8, so it is taken modulo 256.
ela_image(a, b) == (absdiff(a, b) * Amplification) % Wrap

\* np.maximum.reduce(ela_images) for one sample, decoded[q] being the sample
\* after the round trip at Qualities[q]: the value handed to
\* cv2.applyColorMap.
composite_ela(orig, decoded) ==
    SeqMax([q \in 1..Len(Qualities) |-> ela_image(orig, decoded[q])])

\* cvRound(num / den): round half to even, num >= 0, den > 0.
RoundHalfEven(num, den) ==
    LET q == num \div den
        r == num % den
    IN  IF 2 * r > den \/ (2 * r = den /\ q % 2 = 1) THEN q + 1 ELSE q

\* cv2.normalize(src, None, 255, 0, cv2.NORM_MINMAX, dtype=cv2.CV_8U): the
\* target range is [min(alpha, beta), max(alpha, beta)] = [0, 255]; the scale
\* is 255 / (smax - smin), or 0 when smax - smin is not above DBL_EPSILON
\* (never the case for two distinct fixed-point samples).
cv2_normalize_minmax(src) ==
    LET smin == SeqMin(src)
        smax == SeqMax(src)
    IN  [i \in 1..Len(src) |->
            IF smax > smin
            THEN Min2(MaxSample,
                      RoundHalfEven((src[i] - smin) * MaxSample, smax - smin))
            ELSE 0]

-----------------------------------------------------------------------------
(* Outcome of a call: a return value or a raised exception, the log records *)
(* it emitted, the state of the argument buffer after the call (ndarrays    *)
(* are passed by reference), and the arguments of its last library call.    *)

NoCall == [fn |-> "none"]

Return(value, logs, after, call) ==
    [raised |-> FALSE, exc |-> "", value |-> value, log |-> logs,
     arg_after |-> after, call |-> call]

Raise(exc, after) ==
    [raised |-> TRUE, exc |-> exc, value |-> None, log |-> <<>>,
     arg_after |-> after, call |-> NoCall]

\* `except Exception as e: logging.error(...); return None`.  ValueError,
\* TypeError, cv2.error and MemoryError all derive from Exception.
CatchAll(o, origin) ==
    IF o.raised
    THEN Return(None, o.log \o <<<<"error", origin>>>>, o.arg_after, NoCall)
    ELSE o

\* cv2.cvtColor(image, cv2.COLOR_BGR2GRAY) raises cv2.error unless image is
\* a 3-channel ndarray.
cvtColor_fails(img) == ~IsArray(img) \/ img.ch # 3

\* The exception a library call inside analyzer a raises in this run ("" if
\* none does): a codec error, an allocation failure.
Fault(l, a) == l.fault[a]

-----------------------------------------------------------------------------
(* perform_ela *)

ela_body(img, l) ==
    IF img = None THEN Raise("ValueError", img)
    ELSE IF ~IsArray(img) THEN Raise("TypeError", img)
    ELSE IF Fault(l, "ela") # "" THEN Raise(Fault(l, "ela"), img)
    \* a 2-D array decodes back as 3 channels: absdiff raises on the shapes
    ELSE IF img.ch # 3 THEN Raise("cv2.error", img)
    ELSE Return(Buffer(img.h, img.w, 3, <<"ela">> \o img.data), <<>>, img,
                [fn |-> "applyColorMap",
                 src |-> composite_ela(l.orig, l.decoded)])

perform_ela_uncaught(img, l) == ela_body(img, l)

perform_ela_inplace(img, l) ==
    [CatchAll(ela_body(img, l), "perform_ela") EXCEPT
        !.arg_after = IF IsArray(img)
                      THEN [img EXCEPT !.data = <<"scratch">> \o img.data]
                      ELSE img]

perform_ela(img, l) == CatchAll(ela_body(img, l), "perform_ela")

-----------------------------------------------------------------------------
(* perform_gabor_filtering: no try block, so what raises inside propagates *)

perform_gabor_filtering_keep_flat(img, l) ==
    IF img = None
    THEN Return(None, <<<<"warning", "perform_gabor_filtering">>>>, img, NoCall)
    ELSE IF cvtColor_fails(img) THEN Raise("cv2.error", img)
    ELSE IF Fault(l, "gabor") # "" THEN Raise(Fault(l, "gabor"), img)
    ELSE IF Len(l.mag) = 0
    THEN Return(None, <<<<"error", "perform_gabor_filtering">>>>, img, NoCall)
    ELSE Return(Buffer(img.h, img.w, 1, <<"gabor">> \o img.data), <<>>, img,
                [fn |-> "normalize", dst |-> cv2_normalize_minmax(l.mag)])

perform_gabor_filtering(img, l) ==
    IF img = None
    THEN Return(None, <<<<"warning", "perform_gabor_filtering">>>>, img, NoCall)
    ELSE IF cvtColor_fails(img) THEN Raise("cv2.error", img)
    ELSE IF Fault(l, "gabor") # "" THEN Raise(Fault(l, "gabor"), img)
    \* gabor() returns arrays of the image's shape: never None, and empty
    \* only for an empty image
    ELSE IF Len(l.mag) = 0
    THEN Return(None, <<<<"error", "perform_gabor_filtering">>>>, img, NoCall)
    ELSE IF SeqMin(l.mag) # SeqMax(l.mag)
    THEN Return(Buffer(img.h, img.w, 1, <<"gabor">> \o img.data), <<>>, img,
                [fn |-> "normalize", dst |-> cv2_normalize_minmax(l.mag)])
    ELSE Return(None, <<<<"warning", "perform_gabor_filtering">>>>, img, NoCall)

-----------------------------------------------------------------------------
(* perform_frequency_analysis *)

\* cv2.resize(src, (width, height)).
cv2_resize(src, width, height) == [src EXCEPT !.h = height, !.w = width]

perform_frequency_analysis(img, l) ==
    IF img = None
    THEN Return(None, <<<<"warning", "perform_frequency_analysis">>>>, img, NoCall)
    ELSE IF cvtColor_fails(img) THEN Raise("cv2.error", img)
    ELSE IF Fault(l, "frequency") # "" THEN Raise(Fault(l, "frequency"), img)
    ELSE LET magnitude_spectrum == Buffer(img.h, img.w, 1, <<"fft">> \o img.data)
             \* a single-level Haar transform halves each dimension, rounding up
             wavelet_magnitude ==
                 Buffer((img.h + 1) \div 2, (img.w + 1) \div 2, 1,
                        <<"haar">> \o img.data)
             wavelet_magnitude_resized ==
                 cv2_resize(wavelet_magnitude, magnitude_spectrum.w,
                            magnitude_spectrum.h)
         IN  IF wavelet_magnitude_resized.h # magnitude_spectrum.h
                \/ wavelet_magnitude_resized.w # magnitude_spectrum.w
             THEN Raise("cv2.error", img)      \* addWeighted: sizes differ
             ELSE Return(Buffer(magnitude_spectrum.h, magnitude_spectrum.w, 1,
                                <<"frequency">> \o img.data),
                         <<>>, img, NoCall)

-----------------------------------------------------------------------------
(* perform_texture_analysis *)

\* utilities.normalize_gray_image: a min-max stretch to 8 bits of the same
\* shape.
normalize_gray_image(buf) == [buf EXCEPT !.data = <<"texture">> \o Tail(buf.data)]

perform_texture_analysis(img, l) ==
    IF img = None
    THEN Return(None, <<<<"warning", "perform_texture_analysis">>>>, img, NoCall)
    ELSE IF cvtColor_fails(img) THEN Raise("cv2.error", img)
    ELSE IF Fault(l, "texture") # "" THEN Raise(Fault(l, "texture"), img)
    ELSE Return(normalize_gray_image(
                    Buffer(img.h, img.w, 1, <<"lbp">> \o img.data)),
                <<>>, img, NoCall)

-----------------------------------------------------------------------------
(* perform_advanced_edge_detection *)

edge_body(img, l) ==
    IF img = None THEN Raise("ValueError", img)
    ELSE IF ~IsArray(img) THEN Raise("TypeError", img)
    ELSE IF cvtColor_fails(img) THEN Raise("cv2.error", img)
    ELSE IF Fault(l, "edge") # "" THEN Raise(Fault(l, "edge"), img)
    ELSE LET t == canny_thresholds(l.median)
         IN  Return(Buffer(img.h, img.w, 1, <<"edge">> \o img.data), <<>>, img,
                    [fn |-> "Canny", lower |-> t.lower, upper |-> t.upper])

perform_advanced_edge_detection(img, l) ==
    CatchAll(edge_body(img, l), "perform_advanced_edge_detection")

\* The analyzer named a, applied.
Perform(a, img, l) ==
    CASE a = "ela"       -> perform_ela(img, l)
      [] a = "gabor"     -> perform_gabor_filtering(img, l)
      [] a = "edge"      -> perform_advanced_edge_detection(img, l)
      [] a = "frequency" -> perform_frequency_analysis(img, l)
      [] a = "texture"   -> perform_texture_analysis(img, l)

-----------------------------------------------------------------------------
(* process_images and main (src/main.py) *)

\* The order of the calls in process_images.
Order == <<"ela", "gabor", "edge", "frequency", "texture">>

\* The list process_images returns.
process_images_reordered(img, res) ==
    <<img, res["ela"], res["gabor"], res["frequency"], res["edge"],
      res["texture"]>>

process_images_dropping(img, res) ==
    SelectSeq(<<img, res["ela"], res["gabor"], res["edge"], res["frequency"],
                res["texture"]>>, LAMBDA x : x # None)

process_images_return(img, res) ==
    <<img, res["ela"], res["gabor"], res["edge"], res["frequency"],
      res["texture"]>>

\* annotations[i], by its leading word.
Annotations ==
    <<"Original", "ELA", "Gabor", "Edges", "Frequency", "Texture">>

\* cv2.imread(image_path): None for a missing or undecodable file.
cv2_imread(path) == path.content

\* `if image is None: raise ValueError(...)`.
read_failed_unchecked(img) == FALSE

read_failed(img) == img = None

\* cv2.imwrite("temp.jpg", image, quality 90); cv2.imread("temp.jpg").
reread_as_jpeg(img) == [img EXCEPT !.data = <<"jpeg90">> \o img.data]

\* The except clauses of main: every exception class is caught by one of
\* them and logged as an error.
except_clause(exc) ==
    [caught |-> TRUE,
     log |-> <<<<"error", CASE exc = "ValueError" -> "main: Value Error"
                            [] exc = "cv2.error"  -> "main: OpenCV Error"
                            [] OTHER -> "main: An unexpected error occurred">>>>]

(* utilities.py (convert_to_color, standardize_dimensions, annotate_image)  *)
(* is not among the sources; these three follow sections 4.1 and 4.7 of    *)
(* the specification.                                                       *)

\* An unavailable result becomes a placeholder panel; a grayscale buffer is
\* replicated over three channels; a colour buffer passes through.
convert_to_color(imgs) ==
    [i \in 1..Len(imgs) |->
        IF imgs[i] = None THEN Buffer(1, 1, 3, <<"placeholder">>)
        ELSE [imgs[i] EXCEPT !.ch = 3]]

\* Every buffer is resized to the dimensions of the first.
standardize_dimensions(imgs) ==
    [i \in 1..Len(imgs) |-> cv2_resize(imgs[i], imgs[1].w, imgs[1].h)]

\* Renders the text onto the buffer it is given (main discards the return
\* value).
annotate_image(img, text) ==
    [img EXCEPT !.data = <<"annotated", text>> \o img.data]

\* np.hstack of H x W x 3 arrays: concatenation along the width; the heights
\* must agree and the list must not be empty, else ValueError.
np_hstack(tiles) ==
    IF tiles = <<>> \/ \E i \in 1..Len(tiles) : tiles[i].h # tiles[1].h
    THEN [ok |-> FALSE]
    ELSE [ok |-> TRUE, h |-> tiles[1].h,
          w |-> LET RECURSIVE Sum(_)
                    Sum(n) == IF n = 0 THEN 0 ELSE tiles[n].w + Sum(n - 1)
                IN  Sum(Len(tiles)),
          tiles |-> tiles]

\* np.vstack([row1, row2]): concatenation along the height; the widths must
\* agree.
np_vstack(row1, row2) ==
    IF ~row1.ok \/ ~row2.ok \/ row1.w # row2.w
    THEN [ok |-> FALSE]
    ELSE [ok |-> TRUE, h |-> row1.h + row2.h, w |-> row1.w,
          rows |-> <<row1.tiles, row2.tiles>>]

\* imgs[:3] and imgs[3:].
Head3(imgs) == SubSeq(imgs, 1, Min2(3, Len(imgs)))
From3(imgs) == SubSeq(imgs, 4, Len(imgs))

-----------------------------------------------------------------------------
(* Inputs *)

Dims == 1..MaxDim

ColorImages == {Buffer(h, w, 3, <<"file">>) : h \in Dims, w \in Dims}

Paths == [png : BOOLEAN, content : {None} \cup ColorImages]

NoFaults == [a \in Analyzers |-> ""]

\* Library responses when nothing raises: a textured Gabor magnitude, a
\* mid-gray median, a JPEG round trip that moves the sample a little.
DefaultLib ==
    [fault |-> NoFaults, mag |-> <<0, MaxMag>>, median |-> MaxSample,
     orig |-> 128, decoded |-> <<126, 127, 128>>]

PipelineLibs ==
    {[DefaultLib EXCEPT !.fault = f, !.mag = m] :
        f \in [Analyzers -> {"", "cv2.error"}],
        m \in {<<0, 0>>, <<0, MaxMag>>}}

InitPipe ==
    /\ pc = "read"
    /\ image_path \in Paths
    /\ image = None
    /\ lib \in PipelineLibs
    /\ results = [a \in Analyzers |-> Pending]
    /\ invoked = <<>>
    /\ images = <<>>
    /\ report = None
    /\ files = {}
    /\ log = <<>>
    /\ escaped = FALSE

Init ==
    /\ InitPipe
    /\ fn = "main"
    /\ arg = None
    /\ ret = Pending

-----------------------------------------------------------------------------
(* Actions of main *)

\* Lines 36-46: read the image, re-encode a PNG through temp.jpg.
MainRead ==
    /\ pc = "read"
    /\ LET img == cv2_imread(image_path)
           h   == except_clause("ValueError")
       IN  IF read_failed(img)
           THEN /\ image' = img
                /\ files' = files
                /\ log' = log \o <<<<"info", "main: Reading image">>>> \o h.log
                /\ escaped' = ~h.caught
                /\ pc' = "done"
           ELSE /\ image' = IF image_path.png THEN reread_as_jpeg(img) ELSE img
                /\ files' = IF image_path.png
                            THEN files \cup {"temp.jpg"} ELSE files
                /\ log' = Append(log, <<"info", "main: Reading image">>)
                /\ escaped' = escaped
                /\ pc' = "analyze"
    /\ UNCHANGED <<image_path, lib, results, invoked, images, report, callVars>>

\* One call of process_images (lines 22-26) and, if it raises, the except
\* clauses of main (lines 72-77).
AnalyzerStep(a) ==
    LET o == Perform(a, image, lib)
        h == except_clause(o.exc)
    IN  /\ invoked' = Append(invoked, a)
        /\ image' = o.arg_after
        /\ IF o.raised
           THEN /\ results' = results
                /\ log' = log \o o.log \o h.log
                /\ escaped' = ~h.caught
                /\ pc' = "done"
           ELSE /\ results' = [results EXCEPT ![a] = o.value]
                /\ log' = log \o o.log
                /\ escaped' = escaped
                /\ pc' = "analyze"
        /\ UNCHANGED <<image_path, lib, images, report, files, callVars>>

NextInOrder(a) == Len(invoked) < Len(Order) /\ Order[Len(invoked) + 1] = a

PerformEla == pc = "analyze" /\ NextInOrder("ela") /\ AnalyzerStep("ela")

PerformGabor == pc = "analyze" /\ NextInOrder("gabor") /\ AnalyzerStep("gabor")

PerformEdge == pc = "analyze" /\ NextInOrder("edge") /\ AnalyzerStep("edge")

PerformFrequency ==
    pc = "analyze" /\ NextInOrder("frequency") /\ AnalyzerStep("frequency")

PerformTexture ==
    pc = "analyze" /\ NextInOrder("texture") /\ AnalyzerStep("texture")

\* Line 28 and line 48: images = process_images(image).
Collect ==
    /\ pc = "analyze"
    /\ Len(invoked) = Len(Order)
    /\ images' = process_images_return(image, results)
    /\ pc' = "compose"
    /\ UNCHANGED <<image_path, image, lib, results, invoked, report, files,
                   log, escaped, callVars>>

\* Lines 59-70: colour conversion, resizing, annotation, tiling, writing.
Compose ==
    /\ pc = "compose"
    /\ LET color_images == convert_to_color(images)
           standardized_images == standardize_dimensions(color_images)
           too_many == Len(standardized_images) > Len(Annotations)
           annotated == [i \in 1..Len(standardized_images) |->
                            annotate_image(standardized_images[i],
                                           Annotations[Min2(i, Len(Annotations))])]
           combined_image == np_vstack(np_hstack(Head3(annotated)),
                                       np_hstack(From3(annotated)))
           exc == IF too_many THEN "IndexError" ELSE "ValueError"
           h == except_clause(exc)
       IN  IF too_many \/ ~combined_image.ok
           THEN /\ report' = report
                /\ files' = files
                /\ log' = log \o h.log
                /\ escaped' = ~h.caught
           ELSE /\ report' = combined_image
                /\ files' = files \cup {"analysis_report.png"}
                /\ log' = Append(log, <<"info", "main: Analysis complete">>)
                /\ escaped' = escaped
    /\ pc' = "done"
    /\ UNCHANGED <<image_path, image, lib, results, invoked, images, callVars>>

Next ==
    \/ MainRead
    \/ PerformEla
    \/ PerformGabor
    \/ PerformEdge
    \/ PerformFrequency
    \/ PerformTexture
    \/ Collect
    \/ Compose

Spec == Init /\ [][Next]_vars

-----------------------------------------------------------------------------
(* The five analyzer calls in an arbitrary order *)

Called == {invoked[i] : i \in 1..Len(invoked)}

AnyAnalyzer ==
    /\ pc = "analyze"
    /\ \E a \in Analyzers \ Called : AnalyzerStep(a)

NextAnyOrder ==
    \/ MainRead
    \/ AnyAnalyzer
    \/ Collect
    \/ Compose

SpecAnyOrder == Init /\ [][NextAnyOrder]_vars

-----------------------------------------------------------------------------
(* A direct call of one analyzer *)

Faults == {"", "cv2.error", "MemoryError"}

Arguments == {None, NotArray, Buffer(1, 1, 1, <<"file">>)} \cup ColorImages

RECURSIVE SeqsUpTo(_, _)
SeqsUpTo(S, n) ==
    IF n = 0 THEN {<<>>}
    ELSE LET shorter == SeqsUpTo(S, n - 1)
         IN  shorter \cup {Append(s, x) : s \in shorter, x \in S}

Magnitudes == SeqsUpTo(0..MaxMag, MaxPix) \ {<<>>}

Medians == 0..(2 * MaxSample)      \* the median is k/2

OrigSamples == {0, 128, MaxSample}

Clamp(x) == Max2(0, Min2(MaxSample, x))

Decodings(orig) ==
    {<<Clamp(orig + e1), Clamp(orig + e2), Clamp(orig + e3)>> :
        e1 \in -MaxErr..MaxErr, e2 \in -MaxErr..MaxErr, e3 \in -MaxErr..MaxErr}

NumericLibs(f) ==
    CASE f = "edge"  -> {[DefaultLib EXCEPT !.median = k] : k \in Medians}
      [] f = "gabor" -> {[DefaultLib EXCEPT !.mag = m] : m \in Magnitudes}
      [] f = "ela"   -> UNION {{[DefaultLib EXCEPT !.orig = o, !.decoded = d] :
                                  d \in Decodings(o)} : o \in OrigSamples}
      [] OTHER       -> {DefaultLib}

CallInputs(f) ==
    {<<a, [DefaultLib EXCEPT !.fault[f] = x]>> : a \in Arguments, x \in Faults}
    \cup {<<Buffer(1, 1, 3, <<"file">>), l>> : l \in NumericLibs(f)}

InitCall ==
    /\ fn \in Analyzers
    /\ \E in \in CallInputs(fn) : arg = in[1] /\ lib = in[2]
    /\ ret = Pending
    /\ pc = "idle"
    /\ image_path = [png |-> FALSE, content |-> None]
    /\ image = None
    /\ results = [a \in Analyzers |-> Pending]
    /\ invoked = <<>>
    /\ images = <<>>
    /\ report = None
    /\ files = {}
    /\ log = <<>>
    /\ escaped = FALSE

Call(f) ==
    /\ fn = f
    /\ ret = Pending
    /\ LET o == Perform(f, arg, lib)
       IN  /\ ret' = o
           /\ arg' = o.arg_after
    /\ UNCHANGED <<fn, lib, pipeVars>>

CallEla == fn = "ela" /\ Call("ela")

CallGabor == fn = "gabor" /\ Call("gabor")

CallEdge == fn = "edge" /\ Call("edge")

CallFrequency == fn = "frequency" /\ Call("frequency")

CallTexture == fn = "texture" /\ Call("texture")

NextCall ==
    \/ CallEla
    \/ CallGabor
    \/ CallEdge
    \/ CallFrequency
    \/ CallTexture

SpecCall == InitCall /\ [][NextCall]_vars

-----------------------------------------------------------------------------
(* Properties *)

ReportWritten == "analysis_report.png" \in files

HasError(l) == \E i \in 1..Len(l) : l[i][1] = "error"

\* The six tiles of the report, row by row.
Panels == report.rows[1] \o report.rows[2]

\* The content a tile showed before it was annotated.
Shown(tile) == Tail(Tail(tile.data))

IsPlaceholder(tile) == Shown(tile) = <<"placeholder">>

AllReturned == \A a \in Analyzers : results[a] # Pending

\* The buffer main hands to process_images for this image_path.
InputImage ==
    IF image_path.png THEN reread_as_jpeg(cv2_imread(image_path))
    ELSE cv2_imread(image_path)

\* The analyzer behind panel i (i >= 2), as the claims order the panels.
PanelAnalyzer == <<"original", "ela", "gabor", "edge", "frequency", "texture">>

C2_FailureContained ==
    (pc = "done" /\ cv2_imread(image_path) # None) =>
        (Called = Analyzers /\ ReportWritten)

\* C3: when cv2.imread returns None, no analyzer ever runs, no
\* analysis_report.png is written, no exception leaves main, and the finished
\* run has logged an error.
C3_UnreadableImage ==
    cv2_imread(image_path) = None =>
        /\ invoked = <<>>
        /\ ~ReportWritten
        /\ ~escaped
        /\ pc = "done" => HasError(log)

C3_Witness ==
    /\ pc = "done"
    /\ cv2_imread(image_path) = None
    /\ image_path.png
    /\ HasError(log)
    /\ files = {}

\* C4: the thresholds handed to Canny satisfy 0 <= lower <= upper <= 255 for
\* every median k/2, k in 0..510.
C4_ThresholdsOrdered ==
    (ret # Pending /\ ret.call.fn = "Canny") =>
        /\ 0 <= ret.call.lower
        /\ ret.call.lower <= ret.call.upper
        /\ ret.call.upper <= MaxSample

\* A half-integer median whose upper threshold is clamped.
C4_Witness ==
    /\ fn = "edge"
    /\ ret # Pending
    /\ ret.call.fn = "Canny"
    /\ lib.median = 2 * MaxSample - 1
    /\ ret.call.upper = MaxSample
    /\ ret.call.lower = 178

\* C5: perform_ela and perform_advanced_edge_detection never raise; for a
\* None argument, an argument that is no ndarray, or a library call that
\* raises, they return None and log an error.
C5_ElaEdgeNeverRaise ==
    (fn \in {"ela", "edge"} /\ ret # Pending) =>
        /\ ~ret.raised
        /\ (~IsArray(arg) \/ lib.fault[fn] # "") =>
              (ret.value = None /\ HasError(ret.log))

C5_Witness ==
    /\ fn = "ela"
    /\ ret # Pending
    /\ IsArray(arg)
    /\ lib.fault["ela"] = "MemoryError"
    /\ ret.value = None
    /\ HasError(ret.log)

C7_OnlyReportWritten == files \subseteq {"analysis_report.png"}

\* C8: on an image whose Gabor response was computed, perform_gabor_filtering
\* does not raise, returns None exactly when the magnitude's minimum equals
\* its maximum, and otherwise returns a single-channel buffer normalized so
\* that its minimum is 0 and its maximum is 255.
C8_GaborFlatOrNormalized ==
    (/\ fn = "gabor"
     /\ ret # Pending
     /\ ~cvtColor_fails(arg)
     /\ lib.fault["gabor"] = "") =>
        /\ ~ret.raised
        /\ ret.value = None <=> SeqMin(lib.mag) = SeqMax(lib.mag)
        /\ ret.value # None =>
              /\ IsArray(ret.value)
              /\ ret.value.ch = 1
              /\ ret.call.fn = "normalize"
              /\ SeqMin(ret.call.dst) = 0
              /\ SeqMax(ret.call.dst) = MaxSample
              /\ \A i \in 1..Len(ret.call.dst) : ret.call.dst[i] \in 0..MaxSample

\* A flat magnitude of several equal, non-zero samples.
C8_Witness ==
    /\ fn = "gabor"
    /\ ret # Pending
    /\ Len(lib.mag) > 1
    /\ lib.mag[1] > 0
    /\ SeqMin(lib.mag) = SeqMax(lib.mag)
    /\ ret.value = None
    /\ ~ret.raised

\* C9: the value perform_ela hands to the colour map is the maximum over the
\* three qualities of 20 times the absolute difference of the sample.
C9_AmplifiedDifference ==
    (fn = "ela" /\ ret # Pending /\ ret.call.fn = "applyColorMap") =>
        ret.call.src =
            SeqMax([q \in 1..Len(Qualities) |->
                       Amplification * absdiff(lib.orig, lib.decoded[q])])

\* C10: in whatever order the five analyzers run, the shared input buffer
\* stays the buffer main handed over, every analyzer returns what it returns
\* on that buffer, and the first panel is that buffer.
C10_OrderIndependent ==
    pc \in {"analyze", "compose", "done"} =>
        /\ image = InputImage
        /\ \A a \in Analyzers :
              results[a] # Pending =>
                  results[a] = Perform(a, InputImage, lib).value
        /\ images # <<>> => images[1] = InputImage

\* All five have returned, called in the reverse of the order of
\* process_images.
C10_Witness ==
    /\ pc = "compose"
    /\ invoked = <<"texture", "frequency", "edge", "gabor", "ela">>
    /\ \A a \in Analyzers : results[a] \notin {None, Pending}
    /\ images[1] = InputImage

=============================================================================
